---- MODULE Spec2Model ----
(***************************************************************************)
(* Model of the PDF data-extraction CLI (src/main.py): main()'s            *)
(* per-document loop, process_file's file-mode and text-mode state         *)
(* machines, and the response-cleaning / JSON-recovery chain.              *)
(*                                                                         *)
(* Text (PDF text, model responses) is a sequence of one-character         *)
(* strings.  JSON values are records of one shape,                         *)
(*   [kind, lex, keys, vals]                                               *)
(* kind "dict": keys (sequence of key texts) and vals (their values);      *)
(* kind "list": vals; kinds "str", "num", "lit": lex (the characters).     *)
(***************************************************************************)
EXTENDS Integers, Sequences, FiniteSets, TLC

\* ---------------------------------------------------------------- bounds

\* Largest number of PDF files the input directory holds.
MaxDocs == 2

\* ------------------------------------------------------- program constants

GEMINI_MAX_FILE_SIZE_MB == 50

GEMINI_MAX_FILE_SIZE_BYTES == GEMINI_MAX_FILE_SIZE_MB * 1024 * 1024

\* ------------------------------------------------------------ characters

\* Characters json's scanner skips between tokens (json.decoder.WHITESPACE).
JsonWs == {" ", "\t", "\n", "\r"}

\* Characters str.strip() removes: those of JsonWs and further ones, of which
\* the form feed stands here.
PyWs == JsonWs \cup {"\f"}

\* Characters a JSON string literal may not hold unescaped (strict mode).
Control == {"\t", "\n", "\r", "\f"}

Digits == {"0", "1", "2", "3", "4", "5", "6", "7", "8", "9"}

\* ------------------------------------------------------------ JSON values

DictV(ks, vs) == [kind |-> "dict", lex |-> <<>>, keys |-> ks, vals |-> vs]

ListV(vs) == [kind |-> "list", lex |-> <<>>, keys |-> <<>>, vals |-> vs]

StrV(cs) == [kind |-> "str", lex |-> cs, keys |-> <<>>, vals |-> <<>>]

NumV(cs) == [kind |-> "num", lex |-> cs, keys |-> <<>>, vals |-> <<>>]

LitV(cs) == [kind |-> "lit", lex |-> cs, keys |-> <<>>, vals |-> <<>>]

EmptyDict == DictV(<<>>, <<>>)

IsDict(v) == v.kind = "dict"

IsList(v) == v.kind = "list"

\* Position of key k in dict d, 0 when absent.
KeyPos(d, k) ==
  IF \E i \in 1..Len(d.keys) : d.keys[i] = k
  THEN CHOOSE i \in 1..Len(d.keys) : d.keys[i] = k
  ELSE 0

HasKey(d, k) == KeyPos(d, k) # 0

Get(d, k) == d.vals[KeyPos(d, k)]

\* d[k] = v : a present key keeps its place and takes the new value.
Put(d, k, v) ==
  IF HasKey(d, k)
  THEN DictV(d.keys, [d.vals EXCEPT ![KeyPos(d, k)] = v])
  ELSE DictV(Append(d.keys, k), Append(d.vals, v))

\* d.update(m) : every key of m, in m's order, is put into d.
RECURSIVE Update(_, _)
Update(d, m) ==
  IF Len(m.keys) = 0 THEN d
  ELSE Update(Put(d, Head(m.keys), Head(m.vals)),
              DictV(Tail(m.keys), Tail(m.vals)))

\* ------------------------------------------------------------ str methods

RECURSIVE LStrip(_)
LStrip(s) ==
  IF Len(s) > 0 /\ Head(s) \in PyWs THEN LStrip(Tail(s)) ELSE s

RECURSIVE RStrip(_)
RStrip(s) ==
  IF Len(s) > 0 /\ s[Len(s)] \in PyWs
  THEN RStrip(SubSeq(s, 1, Len(s) - 1)) ELSE s

\* str.strip()
Strip(s) == RStrip(LStrip(s))

StartsWith(s, pat) ==
  Len(s) >= Len(pat) /\ SubSeq(s, 1, Len(pat)) = pat

\* str.replace(pat, "") : leftmost non-overlapping occurrences removed.
RECURSIVE Remove(_, _)
Remove(s, pat) ==
  IF Len(s) < Len(pat) THEN s
  ELSE IF StartsWith(s, pat)
       THEN Remove(SubSeq(s, Len(pat) + 1, Len(s)), pat)
       ELSE <<Head(s)>> \o Remove(Tail(s), pat)

\* The backquote character (written BQ: the lexer takes no backquote in a string).
BQ == "BQ"

FENCE == <<BQ, BQ, BQ>>

FENCE_JSON == FENCE \o <<"j", "s", "o", "n">>

\* ------------------------------------------------------------- json.loads

\* s[i], or "" past either end.
At(s, i) == IF i \in 1..Len(s) THEN s[i] ELSE ""

MatchAt(s, i, pat) ==
  i + Len(pat) - 1 <= Len(s) /\ SubSeq(s, i, i + Len(pat) - 1) = pat

\* First position from i on that holds no JSON whitespace.
RECURSIVE SkipWs(_, _)
SkipWs(s, i) == IF At(s, i) \in JsonWs THEN SkipWs(s, i + 1) ELSE i

\* First position from i on that holds no digit.
RECURSIVE DigitsEnd(_, _)
DigitsEnd(s, i) == IF At(s, i) \in Digits THEN DigitsEnd(s, i + 1) ELSE i

\* json.scanner.NUMBER_RE matched at i: the position after the longest match of
\* (-?(?:0|[1-9]\d*))(\.\d+)?([eE][-+]?\d+)?, or 0 when it does not match.
ScanNumber(s, i) ==
  LET p1 == IF At(s, i) = "-" THEN i + 1 ELSE i
      p2 == IF At(s, p1) = "0" THEN p1 + 1
            ELSE IF At(s, p1) \in Digits THEN DigitsEnd(s, p1) ELSE 0
      p3 == IF At(s, p2) = "." /\ At(s, p2 + 1) \in Digits
            THEN DigitsEnd(s, p2 + 1) ELSE p2
      q  == IF At(s, p3 + 1) \in {"+", "-"} THEN p3 + 2 ELSE p3 + 1
      p4 == IF At(s, p3) \in {"e", "E"} /\ At(s, q) \in Digits
            THEN DigitsEnd(s, q) ELSE p3
  IN IF p2 = 0 THEN 0 ELSE p4

\* First position from i on that ends a string literal's run of plain
\* characters: the closing quote, a control character, or the end of s.
RECURSIVE StringEnd(_, _)
StringEnd(s, i) ==
  IF i > Len(s) \/ s[i] = "\"" \/ s[i] \in Control THEN i
  ELSE StringEnd(s, i + 1)

\* What a scan yields: ok, the value, and the position after it.
Scanned(v, i) == [ok |-> TRUE, v |-> v, i |-> i]

ScanFail == [ok |-> FALSE, v |-> EmptyDict, i |-> 0]

\* json.decoder.scanstring, s[i] being the opening quote and j where the run
\* of plain characters after it ends (no escapes: the texts of this model hold
\* no backslash).
StringFrom(s, i, j) ==
  IF At(s, j) = "\"" THEN Scanned(StrV(SubSeq(s, i + 1, j - 1)), j + 1)
  ELSE ScanFail

ScanString(s, i) == StringFrom(s, i, StringEnd(s, i + 1))

\* A number matched from i to before e (e = 0: no match).
NumberFrom(s, i, e) ==
  IF e = 0 THEN ScanFail ELSE Scanned(NumV(SubSeq(s, i, e - 1)), e)

RECURSIVE ScanOnce(_, _)
RECURSIVE ScanMembers(_, _, _)
RECURSIVE ScanElements(_, _, _)

\* json.decoder.JSONObject's loop, after a pair: e is the next position that
\* is no whitespace, d the pairs read so far.
MembersNext(s, e, d) ==
  IF At(s, e) = "}" THEN Scanned(d, e + 1)
  ELSE IF At(s, e) = "," THEN ScanMembers(s, SkipWs(s, e + 1), d)
       ELSE ScanFail

\* ... after the pair's value v was scanned for key k.
AfterValue(s, k, v, d) ==
  IF ~v.ok THEN ScanFail
  ELSE MembersNext(s, SkipWs(s, v.i), Put(d, k.v.lex, v.v))

\* ... after the key k: c is the next position that is no whitespace.
AfterColon(s, k, c, d) ==
  IF At(s, c) # ":" THEN ScanFail
  ELSE AfterValue(s, k, ScanOnce(s, SkipWs(s, c + 1)), d)

AfterKey(s, k, d) ==
  IF ~k.ok THEN ScanFail ELSE AfterColon(s, k, SkipWs(s, k.i), d)

\* json.decoder.JSONObject's loop, i being where a key's opening quote must be
\* and d the pairs read so far.
ScanMembers(s, i, d) ==
  IF At(s, i) # "\"" THEN ScanFail ELSE AfterKey(s, ScanString(s, i), d)

\* json.decoder.JSONArray's loop, after an element: e is the next position
\* that is no whitespace, acc the elements read so far.
ElementsNext(s, e, acc) ==
  IF At(s, e) = "]" THEN Scanned(ListV(acc), e + 1)
  ELSE IF At(s, e) = "," THEN ScanElements(s, SkipWs(s, e + 1), acc)
       ELSE ScanFail

AfterElement(s, v, acc) ==
  IF ~v.ok THEN ScanFail
  ELSE ElementsNext(s, SkipWs(s, v.i), Append(acc, v.v))

\* json.decoder.JSONArray's loop, i being where an element must start and acc
\* the elements read so far.
ScanElements(s, i, acc) == AfterElement(s, ScanOnce(s, i), acc)

\* The object whose "{" is before j, j holding no whitespace.
ObjectFrom(s, j) ==
  IF At(s, j) = "}" THEN Scanned(EmptyDict, j + 1)
  ELSE ScanMembers(s, j, EmptyDict)

\* The array whose "[" is before j, j holding no whitespace.
ArrayFrom(s, j) ==
  IF At(s, j) = "]" THEN Scanned(ListV(<<>>), j + 1)
  ELSE ScanElements(s, j, <<>>)

\* json.scanner.py_make_scanner's _scan_once at position i (NaN and Infinity
\* left out: the texts of this model hold no capital letter).
ScanOnce(s, i) ==
  CASE At(s, i) = "\"" -> ScanString(s, i)
    [] At(s, i) = "{"  -> ObjectFrom(s, SkipWs(s, i + 1))
    [] At(s, i) = "["  -> ArrayFrom(s, SkipWs(s, i + 1))
    [] MatchAt(s, i, <<"n", "u", "l", "l">>)
                       -> Scanned(LitV(<<"n", "u", "l", "l">>), i + 4)
    [] MatchAt(s, i, <<"t", "r", "u", "e">>)
                       -> Scanned(LitV(<<"t", "r", "u", "e">>), i + 4)
    [] MatchAt(s, i, <<"f", "a", "l", "s", "e">>)
                       -> Scanned(LitV(<<"f", "a", "l", "s", "e">>), i + 5)
    [] OTHER           -> NumberFrom(s, i, ScanNumber(s, i))

\* The scan r of s is a whole document: nothing but whitespace follows it.
WholeText(s, r) ==
  IF r.ok /\ SkipWs(s, r.i) = Len(s) + 1 THEN r ELSE ScanFail

\* json.loads(s): one value between optional whitespace and nothing else
\* (JSONDecodeError otherwise: ok = FALSE).
JsonLoads(s) == WholeText(s, ScanOnce(s, SkipWs(s, 1)))

\* re.search(r'\{.*\}', s, re.DOTALL): from the first "{" to the last "}"
\* after it; <<>> stands for no match (a match is never empty).
FirstBrace(s) ==
  IF \E i \in 1..Len(s) : s[i] = "{"
  THEN CHOOSE i \in 1..Len(s) : s[i] = "{" /\ \A j \in 1..(i - 1) : s[j] # "{"
  ELSE 0

LastBrace(s) ==
  IF \E i \in 1..Len(s) : s[i] = "}"
  THEN CHOOSE i \in 1..Len(s) : s[i] = "}" /\ \A j \in (i + 1)..Len(s) : s[j] # "}"
  ELSE 0

JsonMatch(s) ==
  IF FirstBrace(s) # 0 /\ LastBrace(s) > FirstBrace(s)
  THEN SubSeq(s, FirstBrace(s), LastBrace(s))
  ELSE <<>>

\* --------------------------------------------- process_file: the response

\* response.text.strip().replace("```json", "").replace("```", "")
CleanResponse(text) == Remove(Remove(Strip(text), FENCE_JSON), FENCE)

\* What the handling of a response yields: ok and the data, or the failure.
Parsed(v) == [ok |-> TRUE, v |-> v, err |-> "none"]

ParseFail(e) == [ok |-> FALSE, v |-> EmptyDict, err |-> e]

\* A response with no brace-delimited block counts as an empty dict.
FromMatch_Lenient(m) ==
  IF m = <<>> THEN Parsed(EmptyDict)
  ELSE IF JsonLoads(m).ok THEN Parsed(JsonLoads(m).v)
       ELSE ParseFail("decode")

\* Lines 189-199, the cleaned text having failed to parse: m is the
\* brace-delimited match, parsed if there is one.
FromMatch(m) ==
  IF m = <<>> THEN ParseFail("no_json")
  ELSE IF JsonLoads(m).ok THEN Parsed(JsonLoads(m).v)
       ELSE ParseFail("decode")

\* Lines 182-199, first being json.loads of the cleaned text.
Recover(cleaned, first) ==
  IF first.ok THEN Parsed(first.v) ELSE FromMatch(JsonMatch(cleaned))

\* extracted_data after the try/except around json.loads: the cleaned text
\* parsed as it is, else the brace-delimited match parsed.
ExtractJson(cleaned) == Recover(cleaned, JsonLoads(cleaned))

\* An empty list is left as it is.
UnwrapList_EmptyStays(v) ==
  IF IsList(v) /\ Len(v.vals) > 0 THEN v.vals[1] ELSE v

\* A list gives its first item, an empty list an empty dict.
UnwrapList(v) ==
  IF IsList(v)
  THEN IF Len(v.vals) > 0 THEN v.vals[1] ELSE EmptyDict
  ELSE v

\* Lines 201-213: the list unwrapped, and anything but a dict refused.
CheckType(v) == IF IsDict(v) THEN Parsed(v) ELSE ParseFail("type")

Shaped(e) == IF e.ok THEN CheckType(UnwrapList(e.v)) ELSE e

\* extracted_data before the metadata is added, or the failure that makes
\* process_file return None.
ParseResponse(text) == Shaped(ExtractJson(CleanResponse(text)))

KEY_FILENAME == <<"f", "i", "l", "e", "n", "a", "m", "e">>

KEY_MODE ==
  <<"p", "r", "o", "c", "e", "s", "s", "i", "n", "g", "_", "m", "o", "d", "e">>

MODE_FILE == <<"f", "i", "l", "e">>

MODE_TEXT == <<"t", "e", "x", "t">>

\* metadata = {'filename': filename, 'processing_mode': ...}
Metadata(filename, mode) ==
  DictV(<<KEY_FILENAME, KEY_MODE>>, <<StrV(filename), StrV(mode)>>)

\* The model's keys win over the metadata (the update is made the wrong way
\* round).
Merge_ModelWins(data, metadata) == Update(metadata, data)

\* extracted_data.update(metadata)
Merge(data, metadata) == Update(data, metadata)

\* dict truthiness, as in main()'s "if result:".
Truthy(v) == Len(v.keys) > 0

\* ------------------------------------------------------------ CSV output

\* The characters of column names in code point order, the order sorted()
\* compares strings by.
CodeOrder ==
  <<"0", "1", "2", "3", "4", "5", "6", "7", "8", "9",
    "A", "B", "C", "D", "E", "F", "G", "H", "I", "J", "K", "L", "M",
    "N", "O", "P", "Q", "R", "S", "T", "U", "V", "W", "X", "Y", "Z", "_",
    "a", "b", "c", "d", "e", "f", "g", "h", "i", "j", "k", "l", "m",
    "n", "o", "p", "q", "r", "s", "t", "u", "v", "w", "x", "y", "z">>

Code(c) == CHOOSE i \in 1..Len(CodeOrder) : CodeOrder[i] = c

\* a < b for two str: at the first place they differ a ends or has the
\* smaller code point.
StrLess(a, b) ==
  \E i \in 1..Len(b) :
    /\ \A j \in 1..(i - 1) : j <= Len(a) /\ a[j] = b[j]
    /\ i > Len(a) \/ Code(a[i]) < Code(b[i])

Least(S) == CHOOSE x \in S : \A y \in S \ {x} : StrLess(x, y)

\* sorted(list(S)) for a set of str.
RECURSIVE Sorted(_)
Sorted(S) ==
  IF S = {} THEN <<>> ELSE <<Least(S)>> \o Sorted(S \ {Least(S)})

\* str(v) for a scalar: a str is itself, a number its digits (integers
\* only), None, True and False their Python names.
PyStr(v) ==
  CASE v.kind \in {"str", "num"} -> v.lex
    [] v = LitV(<<"n", "u", "l", "l">>) -> <<"N", "o", "n", "e">>
    [] v = LitV(<<"t", "r", "u", "e">>) -> <<"T", "r", "u", "e">>
    [] v = LitV(<<"f", "a", "l", "s", "e">>) -> <<"F", "a", "l", "s", "e">>

\* '; '.join(map(str, v))
RECURSIVE JoinStr(_)
JoinStr(v) ==
  IF v = <<>> THEN <<>>
  ELSE IF Len(v) = 1 THEN PyStr(v[1])
  ELSE PyStr(v[1]) \o <<";", " ">> \o JoinStr(Tail(v))

\* Line 232: the key of an item under parent_key, with sep = '_'.
NewKey(parent_key, k) ==
  IF parent_key # <<>> THEN parent_key \o <<"_">> \o k ELSE k

RECURSIVE flatten_json_to_csv(_, _)

\* Lines 233-238: the items one (k, v) adds. The items are kept as the dict
\* that dict(items) makes of them: a repeated key keeps its first place and
\* takes the last value.
ItemsWith(items, new_key, v) ==
  IF IsDict(v) THEN Update(items, flatten_json_to_csv(v, new_key))
  ELSE IF IsList(v) THEN Put(items, new_key, StrV(JoinStr(v.vals)))
  ELSE Put(items, new_key, v)

\* The loop of line 231 from the i-th item of data on.
RECURSIVE FlattenFrom(_, _, _, _)
FlattenFrom(data, parent_key, i, items) ==
  IF i > Len(data.keys) THEN items
  ELSE FlattenFrom(data, parent_key, i + 1,
                   ItemsWith(items, NewKey(parent_key, data.keys[i]), data.vals[i]))

flatten_json_to_csv(data, parent_key) ==
  FlattenFrom(data, parent_key, 1, EmptyDict)

\* Lines 247-251: every item flattened.
Flattened(data) ==
  [i \in 1..Len(data) |-> flatten_json_to_csv(data[i], <<>>)]

\* The header is taken from the first item alone.
AllColumns_FirstItem(flattened_data) ==
  {flattened_data[1].keys[k] : k \in 1..Len(flattened_data[1].keys)}

\* Lines 253-256: the keys of all the flattened items.
AllColumns(flattened_data) ==
  UNION { {flattened_data[i].keys[k] : k \in 1..Len(flattened_data[i].keys)} :
          i \in 1..Len(flattened_data) }

\* What csv.writer writes for a value: nothing for None, str(v) otherwise.
CsvField(v) ==
  IF v = LitV(<<"n", "u", "l", "l">>) THEN <<>> ELSE PyStr(v)

\* Line 272: item.get(col, ''), as written.
Cell(item, col) ==
  IF HasKey(item, col) THEN CsvField(Get(item, col)) ELSE <<>>

\* Lines 270-274: the row of an item, a field for each column.
Row(item, columns) == [c \in 1..Len(columns) |-> Cell(item, columns[c])]

\* Lines 262-274: the header and a row for each item.
Written(flattened_data, columns) ==
  [header |-> columns,
   rows |-> [i \in 1..Len(flattened_data) |-> Row(flattened_data[i], columns)]]

\* The output file was not written as CSV.
NoCsv == [header |-> <<>>, rows |-> <<>>]

\* Nothing is written for no data (line 244).
save_to_csv(data) ==
  IF data = <<>> THEN NoCsv
  ELSE Written(Flattened(data), Sorted(AllColumns(Flattened(data))))

\* ------------------------------------------------------------ the inputs

Q == "\""

OBJ_A == <<"{", Q, "a", Q, ":", "1", "}">>

OBJ_META ==
  <<"{", Q>> \o KEY_FILENAME \o <<Q, ":", Q, "x", Q, ",", Q>> \o KEY_MODE
    \o <<Q, ":", "2", ",", Q, "b", Q, ":", "[", "]", "}">>

\* Texts a generate call may answer with.
Raws ==
  { OBJ_A,
    FENCE_JSON \o <<"\n">> \o OBJ_A \o <<"\n">> \o FENCE,
    <<"[">> \o OBJ_A \o <<",", "2", "]">>,
    <<"[", "]">>,
    <<"[", "1", "]">>,
    <<"1">>,
    <<"n", "o">>,
    <<"s", "o", " ">> \o OBJ_A \o <<"\n">>,
    <<"{", "a", "}">>,
    <<"}", "{">>,
    OBJ_A \o <<"}">>,
    FENCE_JSON \o FENCE,
    OBJ_META }

\* File sizes os.path.getsize may report.
Sizes ==
  {1024, GEMINI_MAX_FILE_SIZE_BYTES, GEMINI_MAX_FILE_SIZE_BYTES + 1}

\* What pymupdf finds in a file: whether it opens, its page count, its text.
Pdf(r, n, t) == [readable |-> r, pages |-> n, text |-> t]

Contents ==
  { Pdf(FALSE, 0, <<>>),
    Pdf(TRUE, 0, <<>>),
    Pdf(TRUE, 1, <<" ", "\f", "\n">>),
    Pdf(TRUE, 2, <<"a", "b", "\n">>) }

\* A PDF file of the input directory.
Doc(sz, c) == [size |-> sz, content |-> c]

\* What args.schema holds: no file, text that is no JSON, a falsy value ({} or
\* null), an object without "fields", one whose "fields" is [], a usable one.
SchemaFiles ==
  {"missing", "invalid", "empty", "no_fields", "empty_fields", "ok"}

DigitChar == <<"1", "2", "3", "4", "5", "6", "7", "8", "9">>

\* The name of the i-th PDF file of the input directory.
FileName(i) == <<"f", DigitChar[i]>>

INPUT_DIR == <<"i", "n">>

\* ------------------------------------------------------------- the state

VARIABLES
  api_key,       \* GEMINI_API_KEY is set
  is_dir,        \* os.path.isdir(args.input_dir)
  schema_file,   \* what args.schema holds
  text_mode,     \* args.text_mode
  recursive,     \* args.recursive
  input_is_cwd,  \* args.input_dir is the current working directory
  format,        \* args.format
  docs,          \* the PDF files of the input directory, in listing order
  pc,            \* where main() / process_file() stands
  pdf_files,     \* main(): the paths to process
  idx,           \* main(): position of the loop in pdf_files
  all_results,   \* main(): the results collected
  staged,        \* process_file(): uploaded_file is bound
  response,      \* process_file(): response.text
  result,        \* process_file(): what it returns, [some, v]
  uploaded,      \* documents genai.upload_file was called for
  remote,        \* documents whose staged file the service holds
  opened,        \* documents pymupdf.open was called for
  generated,     \* documents model.generate_content was called for
  deleted,       \* documents genai.delete_file was called for
  writes,        \* times the output file was opened for writing
  output,        \* what the output file holds, written as JSON
  csv_file,      \* what the output file holds, written as CSV
  returns,       \* history: what each process_file call returned, and where
  fence          \* the fence round trip: a content and its two parses

vars ==
  <<api_key, is_dir, schema_file, text_mode, recursive, input_is_cwd, format,
    docs, pc, pdf_files, idx, all_results, staged, response, result, uploaded,
    remote, opened, generated, deleted, writes, output, csv_file, returns,
    fence>>

\* What a run never changes: the arguments, the environment, the directory.
args ==
  <<api_key, is_dir, schema_file, text_mode, recursive, input_is_cwd, format,
    docs, fence>>

\* The calls made to the services and the output file.
calls ==
  <<uploaded, remote, opened, generated, deleted, writes, output, csv_file>>

\* process_file's locals.
locals == <<staged, response, result>>

\* ----------------------------------------------------------------- paths

\* os.path.join(root, file)
Join(root, file) == <<root, file>>

\* os.path.basename(path)
Basename(path) == path[Len(path)]

\* The path designates the file of that name in the input directory: it names
\* the directory, or is relative to a working directory that is the input one.
Resolves(path) == Len(path) = 2 \/ input_is_cwd

\* The paths main() collects: joined to the root under --recursive, the bare
\* names of os.listdir otherwise.
Enumerated ==
  IF recursive
  THEN [i \in 1..Len(docs) |-> Join(INPUT_DIR, FileName(i))]
  ELSE [i \in 1..Len(docs) |-> <<FileName(i)>>]

None == [some |-> FALSE, v |-> EmptyDict]

\* The fence round trip is not part of a run of main().
NoFence ==
  [stage |-> "none", content |-> <<>>,
   plain |-> ParseFail("unset"), fenced |-> ParseFail("unset")]

Some(v) == [some |-> TRUE, v |-> v]

\* ------------------------------------------------------------------ Init

\* A document is described by what the run's mode reads of it: its size in
\* file mode, what pymupdf finds in it in text mode.
DocsOf(mode) ==
  IF mode
  THEN {Doc(1024, c) : c \in Contents}
  ELSE {Doc(sz, Pdf(TRUE, 2, <<"a", "b", "\n">>)) : sz \in Sizes}

Init ==
  /\ api_key \in BOOLEAN
  /\ is_dir \in BOOLEAN
  /\ schema_file \in SchemaFiles
  /\ text_mode \in BOOLEAN
  /\ recursive \in BOOLEAN
  /\ input_is_cwd \in BOOLEAN
  /\ format \in {"json", "csv"}
  /\ \E n \in 0..MaxDocs : docs \in [1..n -> DocsOf(text_mode)]
  /\ pc = "configure"
  /\ pdf_files = <<>>
  /\ idx = 0
  /\ all_results = <<>>
  /\ staged = FALSE
  /\ response = <<>>
  /\ result = None
  /\ uploaded = {}
  /\ remote = {}
  /\ opened = {}
  /\ generated = {}
  /\ deleted = {}
  /\ writes = 0
  /\ output = <<>>
  /\ csv_file = NoCsv
  /\ returns = <<>>
  /\ fence = NoFence

\* ---------------------------------------------------------------- main()

\* load_extraction_schema returns a value main() takes as a schema: None
\* for a missing or unparseable file, and a falsy value, are refused at
\* lines 348-349.
SchemaLoaded(f) == f \notin {"missing", "invalid", "empty"}

\* The fields of the schema are never looked at.
HasFields_NotChecked(f) == TRUE

\* Line 350: extraction_schema.get('fields') is truthy.
HasFields(f) == f \notin {"no_fields", "empty_fields"}

\* main(), lines 330-352: the API key, the input directory, the schema.
Configure ==
  /\ pc = "configure"
  /\ pc' = IF api_key /\ is_dir /\ SchemaLoaded(schema_file) /\ HasFields(schema_file)
           THEN "enumerate" ELSE "done"
  /\ UNCHANGED <<args, pdf_files, idx, all_results, locals, calls, returns>>

\* main(), lines 354-370: the PDF files of the input directory.
Enumerate ==
  /\ pc = "enumerate"
  /\ pdf_files' = Enumerated
  /\ pc' = IF Len(Enumerated) = 0 THEN "done" ELSE "loop"
  /\ idx' = 1
  /\ UNCHANGED <<args, all_results, locals, calls, returns>>

\* main(), lines 382-386: the loop takes the next path and calls process_file.
LoopNext ==
  /\ pc = "loop"
  /\ idx <= Len(pdf_files)
  /\ pc' = IF text_mode THEN "open" ELSE "size_check"
  /\ staged' = FALSE
  /\ response' = <<>>
  /\ result' = None
  /\ UNCHANGED <<args, pdf_files, idx, all_results, calls, returns>>

\* The loop ends at the first document that fails.
Collect_StopsAtFailure ==
  /\ pc = "collect"
  /\ all_results' = IF result.some /\ Truthy(result.v)
                    THEN Append(all_results, result.v) ELSE all_results
  /\ idx' = IF result.some THEN idx + 1 ELSE Len(pdf_files) + 1
  /\ pc' = "loop"
  /\ UNCHANGED <<args, pdf_files, locals, calls, returns>>

\* The output file is rewritten after every document (a checkpoint).
Collect_Checkpoints ==
  /\ pc = "collect"
  /\ all_results' = IF result.some /\ Truthy(result.v)
                    THEN Append(all_results, result.v) ELSE all_results
  /\ idx' = idx + 1
  /\ pc' = "loop"
  /\ writes' = writes + 1
  /\ output' = all_results'
  /\ UNCHANGED <<args, csv_file, pdf_files, locals, returns,
                 uploaded, remote, opened, generated, deleted>>

\* main(), lines 387-393: a truthy result is appended; the loop advances.
Collect ==
  /\ pc = "collect"
  /\ all_results' = IF result.some /\ Truthy(result.v)
                    THEN Append(all_results, result.v) ELSE all_results
  /\ idx' = idx + 1
  /\ pc' = "loop"
  /\ UNCHANGED <<args, pdf_files, locals, calls, returns>>

\* main(), lines 395-407: after the loop, nothing is written for no results;
\* else the output file is opened and the results dumped as JSON or saved
\* as CSV (either may fail, which is caught and reported).
Save ==
  /\ pc = "loop"
  /\ idx > Len(pdf_files)
  /\ pc' = "done"
  /\ IF all_results = <<>>
     THEN UNCHANGED <<writes, output, csv_file>>
     ELSE /\ writes' = writes + 1
          /\ \E ok \in BOOLEAN :
               IF format = "json"
               THEN /\ output' = IF ok THEN all_results ELSE <<>>
                    /\ UNCHANGED csv_file
               ELSE /\ csv_file' = IF ok THEN save_to_csv(all_results) ELSE NoCsv
                    /\ UNCHANGED output
  /\ UNCHANGED <<args, pdf_files, idx, all_results, locals,
                 uploaded, remote, opened, generated, deleted, returns>>

\* -------------------------------------------------- process_file, file mode

\* process_file returns v to main(); the history notes it and the step it
\* returned from.
Return(v) ==
  /\ result' = v
  /\ pc' = "collect"
  /\ returns' = Append(returns, [some |-> v.some, v |-> v.v, at |-> pc])

\* A size at or over the limit is refused (the limit itself must pass).
TooLarge_AtLimit(size) == size >= GEMINI_MAX_FILE_SIZE_BYTES

\* Line 114: file_size > GEMINI_MAX_FILE_SIZE_BYTES
TooLarge(size) == size > GEMINI_MAX_FILE_SIZE_BYTES

\* Lines 112-116: os.path.getsize raises for a path that designates no file
\* (caught at line 224); a file over the limit returns None.
SizeCheck ==
  /\ pc = "size_check"
  /\ IF Resolves(pdf_files[idx]) /\ ~TooLarge(docs[idx].size)
     THEN pc' = "upload" /\ UNCHANGED <<result, returns>>
     ELSE Return(None)
  /\ UNCHANGED <<args, pdf_files, idx, all_results, staged, response, calls>>

\* Line 119: genai.upload_file; its failure is caught at line 138.
Upload ==
  /\ pc = "upload"
  /\ uploaded' = uploaded \cup {idx}
  /\ \E ok \in BOOLEAN :
       IF ok
       THEN /\ staged' = TRUE
            /\ remote' = remote \cup {idx}
            /\ pc' = "generate_file"
            /\ UNCHANGED <<result, returns>>
       ELSE /\ Return(None)
            /\ UNCHANGED <<staged, remote>>
  /\ UNCHANGED <<args, csv_file, pdf_files, idx, all_results, response,
                 opened, generated, deleted, writes, output>>

\* Lines 121-128: model.generate_content([prompt, uploaded_file]); its failure
\* is caught at line 138.
GenerateFile ==
  /\ pc = "generate_file"
  /\ generated' = generated \cup {idx}
  /\ \/ \E raw \in Raws :
          /\ response' = raw
          /\ pc' = "cleanup"
          /\ UNCHANGED <<result, returns>>
     \/ /\ Return(None)
        /\ UNCHANGED response
  /\ UNCHANGED <<args, csv_file, pdf_files, idx, all_results, staged,
                 uploaded, remote, opened, deleted, writes, output>>

\* Lines 130-140: genai.delete_file(uploaded_file.name); its failure is caught
\* at line 138 like an upload's, and process_file returns None.
Cleanup ==
  /\ pc = "cleanup"
  /\ deleted' = deleted \cup {idx}
  /\ \E ok \in BOOLEAN :
       IF ok
       THEN /\ remote' = remote \ {idx}
            /\ pc' = "parse"
            /\ UNCHANGED <<result, returns>>
       ELSE /\ Return(None)
            /\ UNCHANGED remote
  /\ UNCHANGED <<args, csv_file, pdf_files, idx, all_results, staged, response,
                 uploaded, opened, generated, writes, output>>

\* -------------------------------------------------- process_file, text mode

\* Lines 144-148: pymupdf.open; its failure returns None.
Open ==
  /\ pc = "open"
  /\ opened' = opened \cup {idx}
  /\ IF Resolves(pdf_files[idx]) /\ docs[idx].content.readable
     THEN pc' = "extract" /\ UNCHANGED <<result, returns>>
     ELSE Return(None)
  /\ UNCHANGED <<args, csv_file, pdf_files, idx, all_results, staged, response,
                 uploaded, remote, generated, deleted, writes, output>>

\* Only text of no character at all is refused (the strip is forgotten).
NoText_Unstripped(text) == text = <<>>

\* Line 158: not pdf_text_content.strip()
NoText(text) == Strip(text) = <<>>

\* Lines 150-160: the pages' text is gathered; text that strips to nothing
\* returns None.
ExtractText ==
  /\ pc = "extract"
  /\ IF NoText(docs[idx].content.text)
     THEN Return(None)
     ELSE pc' = "generate_text" /\ UNCHANGED <<result, returns>>
  /\ UNCHANGED <<args, pdf_files, idx, all_results, staged, response, calls>>

\* Lines 162-170: model.generate_content(prompt); its failure is caught at
\* line 224.
GenerateText ==
  /\ pc = "generate_text"
  /\ generated' = generated \cup {idx}
  /\ \/ \E raw \in Raws :
          /\ response' = raw
          /\ pc' = "parse"
          /\ UNCHANGED <<result, returns>>
     \/ /\ Return(None)
        /\ UNCHANGED response
  /\ UNCHANGED <<args, csv_file, pdf_files, idx, all_results, staged,
                 uploaded, remote, opened, deleted, writes, output>>

\* -------------------------------------------------- process_file, the result

\* process_file's metadata for the file at path, lines 134-137 and 173-176.
MetadataOf(path, mode) ==
  Metadata(Basename(path), IF mode THEN MODE_TEXT ELSE MODE_FILE)

\* Lines 215-218: the metadata is added to a parsed response and the result
\* returned; None for a response that failed.
Returned(parsed, metadata) ==
  IF parsed.ok THEN Some(Merge(parsed.v, metadata)) ELSE None

\* What process_file returns for a response, lines 178-218.
ResultOf(text, path, mode) ==
  Returned(ParseResponse(text), MetadataOf(path, mode))

Parse ==
  /\ pc = "parse"
  /\ Return(ResultOf(response, pdf_files[idx], text_mode))
  /\ UNCHANGED <<args, pdf_files, idx, all_results, staged, response, calls>>

Next ==
  \/ Configure
  \/ Enumerate
  \/ LoopNext
  \/ SizeCheck
  \/ Upload
  \/ GenerateFile
  \/ Cleanup
  \/ Open
  \/ ExtractText
  \/ GenerateText
  \/ Parse
  \/ Collect
  \/ Save

Spec == Init /\ [][Next]_vars

\* ------------------------------------------- the fence round trip (pure)

\* What a response may hold between its fences.
FenceBodies ==
  { <<>>,
    OBJ_A,
    <<"[", "]">>,
    <<"[">> \o OBJ_A \o <<"]">>,
    <<"[", "1", "]">>,
    <<"1">>,
    <<"n", "o">>,
    <<"s", "o", " ">> \o OBJ_A,
    <<"{", "a", "}">>,
    <<BQ, "j", "s", "o", "n">> \o OBJ_A \o <<BQ>> }

\* Whitespace around it.
FencePads == {<<>>, <<" ">>, <<"\n">>, <<"\f">>}

FenceContents ==
  {pre \o body \o post : pre \in FencePads, body \in FenceBodies, post \in FencePads}

\* The content between a ```json opening fence and a ``` closing fence.
Wrap(c) == FENCE_JSON \o c \o FENCE

\* No run of main(): a content is drawn, to be handled as a response twice.
InitFence ==
  /\ api_key = TRUE
  /\ is_dir = TRUE
  /\ schema_file = "ok"
  /\ text_mode = FALSE
  /\ recursive = FALSE
  /\ input_is_cwd = TRUE
  /\ format = "json"
  /\ docs = <<>>
  /\ pc = "done"
  /\ pdf_files = <<>>
  /\ idx = 0
  /\ all_results = <<>>
  /\ staged = FALSE
  /\ response = <<>>
  /\ result = None
  /\ uploaded = {}
  /\ remote = {}
  /\ opened = {}
  /\ generated = {}
  /\ deleted = {}
  /\ writes = 0
  /\ output = <<>>
  /\ csv_file = NoCsv
  /\ returns = <<>>
  /\ \E c \in FenceContents :
       fence = [stage |-> "content", content |-> c,
                plain |-> ParseFail("unset"), fenced |-> ParseFail("unset")]

\* process_file's handling of the response, lines 178-213, for the content.
ParsePlain ==
  /\ fence.stage = "content"
  /\ fence' = [fence EXCEPT !.stage = "plain",
                            !.plain = ParseResponse(fence.content)]
  /\ UNCHANGED <<api_key, is_dir, schema_file, text_mode, recursive,
                 input_is_cwd, format, docs, pc, pdf_files, idx, all_results, locals,
                 calls, returns>>

\* ... and for the content between fences.
ParseFenced ==
  /\ fence.stage = "plain"
  /\ fence' = [fence EXCEPT !.stage = "done",
                            !.fenced = ParseResponse(Wrap(fence.content))]
  /\ UNCHANGED <<api_key, is_dir, schema_file, text_mode, recursive,
                 input_is_cwd, format, docs, pc, pdf_files, idx, all_results, locals,
                 calls, returns>>

NextFence == ParsePlain \/ ParseFenced

SpecFence == InitFence /\ [][NextFence]_vars

\* --------------------------------------------------- the CSV output (pure)

\* A nested object and a list.
CSV_NESTED ==
  <<"{", Q, "a", Q, ":", "{", Q, "b", Q, ":", "1", "}", ",", Q, "c",
    Q, ":", "[", "1", ",", "2", "]", "}">>

\* The key of CSV_NESTED's object holds a scalar.
CSV_SCALAR ==
  <<"{", Q, "a", Q, ":", "1", "}">>

\* Two items flatten to one key.
CSV_CLASH ==
  <<"{", Q, "a", "_", "b", Q, ":", Q, "x", Q, ",", Q, "a", Q, ":",
    "{", Q, "b", Q, ":", "2", "}", "}">>

\* An empty list and an empty object.
CSV_EMPTY ==
  <<"{", Q, "c", Q, ":", "[", "]", ",", Q, "d", Q, ":", "{", "}", "}">>

\* A capital key, a null, an object in an object.
CSV_DEEP ==
  <<"{", Q, "B", Q, ":", "n", "u", "l", "l", ",", Q, "a", Q, ":",
    "{", Q, "b", Q, ":", "{", Q, "c", Q, ":", "t", "r", "u", "e",
    "}", "}", "}">>

\* An object under the empty key.
CSV_NOKEY ==
  <<"{", Q, Q, ":", "{", Q, "b", Q, ":", "[", "n", "u", "l", "l",
    ",", Q, "x", Q, "]", "}", "}">>

\* Responses whose objects the CSV output has to flatten.
CsvRaws == {CSV_NESTED, CSV_SCALAR, CSV_CLASH, CSV_EMPTY, CSV_DEEP, CSV_NOKEY}

\* A text-bearing PDF.
TextDoc == Doc(1024, Pdf(TRUE, 2, <<"a", "b", "\n">>))

\* main() at the end of its loop, --format csv, in text mode under
\* --recursive: every document was answered with one of CsvRaws and gave a
\* result.
InitCsv ==
  /\ api_key = TRUE
  /\ is_dir = TRUE
  /\ schema_file = "ok"
  /\ text_mode = TRUE
  /\ recursive = TRUE
  /\ input_is_cwd = FALSE
  /\ format = "csv"
  /\ \E n \in 1..MaxDocs : \E raws \in [1..n -> CsvRaws] :
       /\ docs = [i \in 1..n |-> TextDoc]
       /\ pdf_files = [i \in 1..n |-> Join(INPUT_DIR, FileName(i))]
       /\ idx = n + 1
       /\ all_results =
            [i \in 1..n |->
               ResultOf(raws[i], Join(INPUT_DIR, FileName(i)), TRUE).v]
       /\ response = raws[n]
       /\ result = ResultOf(raws[n], Join(INPUT_DIR, FileName(n)), TRUE)
       /\ opened = 1..n
       /\ generated = 1..n
       /\ returns =
            [i \in 1..n |->
               [some |-> TRUE,
                v |-> ResultOf(raws[i], Join(INPUT_DIR, FileName(i)), TRUE).v,
                at |-> "parse"]]
  /\ pc = "loop"
  /\ staged = FALSE
  /\ uploaded = {}
  /\ remote = {}
  /\ deleted = {}
  /\ writes = 0
  /\ output = <<>>
  /\ csv_file = NoCsv
  /\ fence = NoFence

\* The one step left is the write of the output file.
NextCsv == Save

SpecCsv == InitCsv /\ [][NextCsv]_vars

\* ================================================================ claims

\* The results of the calls rs that returned a dict, in order.
RECURSIVE Successes(_)
Successes(rs) ==
  IF rs = <<>> THEN <<>>
  ELSE (IF Head(rs).some THEN <<Head(rs).v>> ELSE <<>>) \o Successes(Tail(rs))

\* main() reached its loop.
InLoop == pc \notin {"configure", "enumerate"} /\ pdf_files # <<>>

\* process_file has returned and main() has not collected yet.
AtReturn == pc = "collect"

\* The mode of the run, as the metadata names it.
RunMode == IF text_mode THEN MODE_TEXT ELSE MODE_FILE

\* all_results holds an entry for the i-th file.
HasEntry(i) ==
  \E k \in 1..Len(all_results) :
    /\ HasKey(all_results[k], KEY_FILENAME)
    /\ Get(all_results[k], KEY_FILENAME) = StrV(FileName(i))

\* C1: in main()'s loop a failing document is skipped without ending the run:
\* every document gets its process_file call, and the result set is exactly
\* the results of the calls that succeeded, in input order, each under its own
\* file's name.
C1_FailuresSkipped ==
  InLoop =>
    /\ Len(returns) = IF AtReturn THEN idx ELSE idx - 1
    /\ all_results = Successes(SubSeq(returns, 1, idx - 1))
    /\ pc = "done" => Len(returns) = Len(pdf_files)
    /\ \A i \in 1..Len(returns) :
         returns[i].some =>
           /\ HasKey(returns[i].v, KEY_FILENAME)
           /\ Get(returns[i].v, KEY_FILENAME) = StrV(FileName(i))

\* A run of two documents ended with the first failed and the second kept.
C1_Witness ==
  /\ pc = "done"
  /\ Len(returns) = 2
  /\ ~returns[1].some
  /\ returns[2].some
  /\ Len(all_results) = 1
  /\ HasEntry(2)

KEY_PAGE_COUNT == <<"p", "a", "g", "e", "_", "c", "o", "u", "n", "t">>

\* C2: every result process_file returns holds the file's basename under
\* filename and the run's mode under processing_mode, and in text mode the
\* document's page count as well.
C2_ResultMetadata ==
  \A i \in 1..Len(returns) :
    returns[i].some =>
      /\ HasKey(returns[i].v, KEY_FILENAME)
      /\ Get(returns[i].v, KEY_FILENAME) = StrV(FileName(i))
      /\ HasKey(returns[i].v, KEY_MODE)
      /\ Get(returns[i].v, KEY_MODE) = StrV(RunMode)
      /\ text_mode => HasKey(returns[i].v, KEY_PAGE_COUNT)

\* C3: in file mode, once upload and generation succeeded and the response
\* parses to a mapping, process_file returns a result whether or not the
\* deletion of the staged file succeeded.
C3_CleanupNotFatal ==
  (AtReturn /\ ~text_mode /\ idx \in deleted /\ ParseResponse(response).ok)
    => result.some

\* The size check of the i-th file has been made and read the file's size.
SizeChecked(i) ==
  /\ Resolves(pdf_files[i])
  /\ \/ i <= Len(returns)
     \/ i = idx /\ pc \in {"upload", "generate_file", "cleanup", "parse"}

Blank(text) == \A k \in 1..Len(text) : text[k] \in PyWs

\* The text of the i-th file has been extracted.
Extracted(i) ==
  /\ Resolves(pdf_files[i])
  /\ docs[i].content.readable
  /\ \/ i <= Len(returns)
     \/ i = idx /\ pc \in {"generate_text", "parse"}

\* C5: in text mode a document whose extracted text is empty or only
\* whitespace is skipped, and generate is never called for it.
C5_BlankTextSkipped ==
  (InLoop /\ text_mode) =>
    \A i \in 1..Len(pdf_files) :
      (Extracted(i) /\ Blank(docs[i].content.text)) =>
        /\ i \notin generated
        /\ i <= Len(returns) /\ ~returns[i].some
        /\ ~HasEntry(i)

\* A document of whitespace only was opened and skipped.
C5_Witness ==
  /\ text_mode
  /\ \E i \in 1..Len(returns) :
       /\ returns[i].at = "extract"
       /\ Len(docs[i].content.text) > 0
       /\ i \in opened

\* The keys of dict d.
KeysOf(d) == {d.keys[k] : k \in 1..Len(d.keys)}

\* process_file returned from its last step, the handling of the response.
ReturnedFromParse == AtReturn /\ returns[idx].at = "parse"

\* C6: the merged result carries the program's own filename and
\* processing_mode, whatever the model returned under those keys, and every
\* other key of the model's mapping with the model's value, and nothing else.
C6_MetadataOverwrites ==
  (ReturnedFromParse /\ result.some) =>
    /\ KeysOf(result.v) =
         KeysOf(ParseResponse(response).v) \cup {KEY_FILENAME, KEY_MODE}
    /\ Get(result.v, KEY_FILENAME) = StrV(FileName(idx))
    /\ Get(result.v, KEY_MODE) = StrV(RunMode)
    /\ \A k \in KeysOf(ParseResponse(response).v) \ {KEY_FILENAME, KEY_MODE} :
         Get(result.v, k) = Get(ParseResponse(response).v, k)

\* The model's mapping held filename and processing_mode keys of its own.
C6_Witness ==
  /\ ReturnedFromParse
  /\ result.some
  /\ {KEY_FILENAME, KEY_MODE} \subseteq KeysOf(ParseResponse(response).v)
  /\ Get(ParseResponse(response).v, KEY_FILENAME) # StrV(FileName(idx))
  /\ Cardinality(KeysOf(result.v)) = 3

\* The last call of process_file, once main() has collected its result.
Collected == pc = "loop" /\ idx > 1 /\ returns[idx - 1].at = "parse"

\* C7: a response that parses to a list gives its first element, and an empty
\* list an empty mapping: the result is then that mapping with the metadata,
\* and for the empty list the document is kept in the result set.
C7_ListUnwrapped ==
  /\ (ReturnedFromParse /\ ExtractJson(CleanResponse(response)).ok
        /\ IsList(ExtractJson(CleanResponse(response)).v)) =>
       LET l == ExtractJson(CleanResponse(response)).v.vals
       IN /\ (Len(l) > 0 /\ IsDict(l[1])) =>
               result = Some(Merge(l[1], MetadataOf(pdf_files[idx], text_mode)))
          /\ Len(l) = 0 =>
               result = Some(MetadataOf(pdf_files[idx], text_mode))
  /\ (Collected /\ ExtractJson(CleanResponse(response)) = Parsed(ListV(<<>>))) =>
       /\ all_results # <<>>
       /\ all_results[Len(all_results)] =
            MetadataOf(pdf_files[idx - 1], text_mode)

\* A response of [] was kept as a result, and one of a list of a mapping too.
C7_Witness ==
  /\ Collected
  /\ response = <<"[", "]">>
  /\ Len(all_results) = 2
  /\ KeysOf(all_results[1]) = {<<"a">>, KEY_FILENAME, KEY_MODE}
  /\ KeysOf(all_results[2]) = {KEY_FILENAME, KEY_MODE}

\* The text holds a "{" with a "}" somewhere after it.
HasBraceBlock(text) ==
  \E i, j \in 1..Len(text) : i < j /\ text[i] = "{" /\ text[j] = "}"

\* C8: a response that is no JSON once the fences are stripped and holds no
\* brace-delimited block makes process_file return None, and the document is
\* not added to the result set.
C8_UnparseableSkipped ==
  /\ (ReturnedFromParse /\ ~JsonLoads(CleanResponse(response)).ok
        /\ ~HasBraceBlock(response)) => ~result.some
  /\ (Collected /\ ~JsonLoads(CleanResponse(response)).ok
        /\ ~HasBraceBlock(response)) =>
       /\ ~returns[idx - 1].some
       /\ ~HasEntry(idx - 1)

\* A response of plain words was handled and its document left out.
C8_Witness ==
  /\ Collected
  /\ response = <<"n", "o">>
  /\ ~returns[idx - 1].some

\* C9: handling a content wrapped in a ```json fence and a closing ``` fence
\* gives what handling the content itself gives: the same mapping, or the
\* same failure.
C9_FenceRoundTrip ==
  fence.stage = "done" =>
    /\ fence.fenced.ok = fence.plain.ok
    /\ fence.fenced.v = fence.plain.v

\* C10: the output file is written at most once, and only when every input
\* document has had its process_file call and the loop is over.
C10_WrittenOnceAtEnd ==
  /\ writes <= 1
  /\ writes > 0 =>
       /\ pc = "done"
       /\ idx = Len(pdf_files) + 1
       /\ \A i \in 1..Len(pdf_files) : i <= Len(returns)

\* The output was written after two documents, one of which failed.
C10_Witness ==
  /\ writes = 1
  /\ Len(pdf_files) = 2
  /\ Len(returns) = 2
  /\ Len(output) = 1

\* One of the configuration errors: no API key, a schema file that is missing,
\* unparseable or empty, a schema without fields, or no PDF file.
ConfigError ==
  \/ ~api_key
  \/ schema_file # "ok"
  \/ Len(docs) = 0

\* C11: under a configuration error the run ends before any document is
\* processed: process_file is never called, nothing is uploaded, opened or
\* sent to the model, and the output file is never written.
C11_ConfigErrorAborts ==
  ConfigError =>
    /\ pc \in {"configure", "enumerate", "done"}
    /\ returns = <<>>
    /\ uploaded = {} /\ opened = {} /\ generated = {} /\ deleted = {}
    /\ writes = 0 /\ output = <<>>

\* A run over a directory with PDF files ended on a schema whose fields are
\* empty.
C11_Witness ==
  /\ pc = "done"
  /\ api_key /\ is_dir
  /\ schema_file = "empty_fields"
  /\ Len(docs) = 2

\* The i-th result as save_to_csv flattens it.
Flat(i) == flatten_json_to_csv(all_results[i], <<>>)

C13_StagedFileDeleted ==
  ~text_mode =>
    \A i \in 1..Len(returns) :
      returns[i].at \in {"generate_file", "parse"} => i \notin remote

\* C14: whatever the input directory and the enumeration, every path main()
\* hands to process_file designates its PDF in the input directory, and a
\* readable PDF with text is opened and taken to the generate call in text
\* mode.
C14_PathsDesignateInputFiles ==
  InLoop =>
    \A i \in 1..Len(pdf_files) :
      /\ Resolves(pdf_files[i])
      /\ ( /\ text_mode
           /\ i <= Len(returns)
           /\ docs[i].content.readable
           /\ ~Blank(docs[i].content.text) )
         => returns[i].at \in {"generate_text", "parse"}

====
